---- MODULE Spec2Model ----
(***************************************************************************)
(* The web master of libmproxy: WebFlowView (the broadcasting view of the  *)
(* flow store), WebState (the view plus the bounded event log) and         *)
(* WebMaster (the consumer loop that drains the channel and replies).      *)
(*                                                                         *)
(* libmproxy/web/__init__.py is modelled statement by statement.  Its     *)
(* collaborators flow.FlowStore, flow.FlowView, flow.FlowMaster and        *)
(* controller.Channel are modelled from the written specification          *)
(* (sections 4.1, 4.2, 4.3 and 4.6) and are marked so in the model map.    *)
(***************************************************************************)
EXTENDS Integers, Sequences, FiniteSets, TLC

(* ------------------------------ bounds -------------------------------- *)

\* flow ids that the store operations are tried with
NumIds == 3

\* appends tried on the event log when the eviction is exercised
MaxAppends == 1003

\* appends tried on the event log when messages and levels vary
MaxVaried == 4

\* concurrent connection workers (one transaction each)
NumWorkers == 2

\* observers that may connect to the broadcast hub
NumObservers == 2

\* flow ids the store operations are tried with while observers come and go
NumHubIds == 2

\* transactions whose records the handlers are called with directly
NumHooked == 1

\* keyword arguments passed to one Options constructor call
MaxKwargs == 2

\* mitmproxy/options.py
LISTEN_PORT == 8080
DefaultFlowDetail == 1

(* ------------------------ program constants --------------------------- *)

\* collections.deque(maxlen=1000)
maxlen == 1000

Ids == 1 .. NumIds

Kinds == {"request", "response"}

Messages == {"m1", "m2"}

Levels == {"info", "error"}

Workers == 1 .. NumWorkers

Observers == 1 .. NumObservers

VARIABLES
    flows,          \* FlowStore._list: the records, in insertion order
    views,          \* FlowStore.views: the views attached to the store
    view,           \* WebFlowView._list
    events,         \* WebState.events, a deque(maxlen=1000)
    last_event_id,  \* WebState._last_event_id
    masterq,        \* WebMaster.masterq: the events submitted and not yet drained
    pc,             \* each worker's position
    reply,          \* each transaction's pending-release handle
    outcome,        \* what each worker received from its last submit
    should_exit,    \* the channel's shutdown flag
    ioloop,         \* the position of WebMaster.run
    trace,          \* per transaction: its events as submitted, drained, resolved
    connections,    \* ClientConnection.connections: the registered observers
    inbox,          \* what each observer received from the step just taken
    failed,         \* the observers whose delivery failed in the step just taken
    sent,           \* the broadcasts issued by the step just taken, in order
    op              \* the step just taken

vars == <<flows, views, view, events, last_event_id, masterq, pc, reply,
          outcome, should_exit, ioloop, trace, connections, inbox, failed,
          sent, op>>

storeVars == <<flows, views, view>>
logVars == <<events, last_event_id>>
chanVars == <<masterq, pc, reply, outcome, should_exit, ioloop, trace>>

(* ------------------------------ records ------------------------------- *)

\* a flow record: identity, kind, intercepted flag
Flow(i, k, ic) == [id |-> i, kind |-> k, intercepted |-> ic]

\* the records the store operations are tried with
StoreInputs == [id : Ids, kind : Kinds, intercepted : {FALSE}]

\* f.get_state(short=True): the reduced snapshot sent to observers
short(f) == [id |-> f.id, kind |-> f.kind]

IdsOf(s) == {s[i].id : i \in 1 .. Len(s)}

Contains(s, f) == f.id \in IdsOf(s)

\* a broadcast as an observer receives it: the message, and the collection
\* it is about as it stands when the broadcast is issued
Delivery(m, coll) == [msg |-> m, seen |-> coll]

(* --------------------- flow.FlowView (section 4.3) --------------------- *)

\* WebFlowView.__init__ passes None as the filter: every record matches
filt(f) == TRUE

FlowView_add(v, f) ==
    IF filt(f) THEN Append(v, f) ELSE v

FlowView_remove(v, f) ==
    SelectSeq(v, LAMBDA x : x.id # f.id)

\* st is the store's list after the update
FlowView_update(v, st, f) ==
    IF Contains(v, f)
      THEN IF filt(f)
             THEN [i \in 1 .. Len(v) |-> IF v[i].id = f.id THEN f ELSE v[i]]
             ELSE FlowView_remove(v, f)
      ELSE IF filt(f)
             THEN SelectSeq(st, LAMBDA x : x.id = f.id \/ Contains(v, x))
             ELSE v

FlowView_recalculate(records) ==
    SelectSeq(records, filt)

(* ----------------------------- WebFlowView ---------------------------- *)

\* mutant: the add is announced with the full record, not its short state
WebFlowView_add_full(v, f) ==
    LET v1 == FlowView_add(v, f)
    IN  [view |-> v1,
         out  |-> <<Delivery([type |-> "flows", cmd |-> "add",
                              data |-> f], v1)>>]

\* mutant: the override broadcasts before it calls the base class
WebFlowView_add_broadcast_first(v, f) ==
    [view |-> FlowView_add(v, f),
     out  |-> <<Delivery([type |-> "flows", cmd |-> "add",
                          data |-> short(f)], v)>>]

WebFlowView_add(v, f) ==
    LET v1 == FlowView_add(v, f)
    IN  [view |-> v1,
         out  |-> <<Delivery([type |-> "flows", cmd |-> "add",
                              data |-> short(f)], v1)>>]

\* mutant: the update is announced as an add
WebFlowView_update_as_add(v, st, f) ==
    LET v1 == FlowView_update(v, st, f)
    IN  [view |-> v1,
         out  |-> <<Delivery([type |-> "flows", cmd |-> "add",
                              data |-> short(f)], v1)>>]

WebFlowView_update(v, st, f) ==
    LET v1 == FlowView_update(v, st, f)
    IN  [view |-> v1,
         out  |-> <<Delivery([type |-> "flows", cmd |-> "update",
                              data |-> short(f)], v1)>>]

\* mutant: the override announces the removal without calling the base class
WebFlowView_remove_no_super(v, f) ==
    [view |-> v,
     out  |-> <<Delivery([type |-> "flows", cmd |-> "remove",
                          data |-> short(f)], v)>>]

WebFlowView_remove(v, f) ==
    LET v1 == FlowView_remove(v, f)
    IN  [view |-> v1,
         out  |-> <<Delivery([type |-> "flows", cmd |-> "remove",
                              data |-> short(f)], v1)>>]

\* mutant: the rebuild announces every record it kept, then the reset
WebFlowView_recalculate_diffs(records) ==
    LET v1 == FlowView_recalculate(records)
    IN  [view |-> v1,
         out  |-> [i \in 1 .. Len(v1) |->
                      Delivery([type |-> "flows", cmd |-> "add",
                                data |-> short(v1[i])], v1)]
                  \o <<Delivery([type |-> "flows", cmd |-> "reset"], v1)>>]

WebFlowView_recalculate(records) ==
    LET v1 == FlowView_recalculate(records)
    IN  [view |-> v1,
         out  |-> <<Delivery([type |-> "flows", cmd |-> "reset"], v1)>>]

(* -------------------- flow.FlowStore (section 4.2) -------------------- *)

\* each operation: the new list, and what the attached view made of it
FlowStore_add(st, v, f) ==
    LET st1 == Append(st, f)
        r   == WebFlowView_add(v, f)
    IN  [flows |-> st1, view |-> r.view, out |-> r.out]

\* mutant: the update deletes the old record and appends the new one
FlowStore_update_reinsert(st, v, f) ==
    LET st1 == Append(SelectSeq(st, LAMBDA x : x.id # f.id), f)
        r   == WebFlowView_update(v, st1, f)
    IN  [flows |-> st1, view |-> r.view, out |-> r.out]

FlowStore_update(st, v, f) ==
    LET st1 == [i \in 1 .. Len(st) |-> IF st[i].id = f.id THEN f ELSE st[i]]
        r   == WebFlowView_update(v, st1, f)
    IN  [flows |-> st1, view |-> r.view, out |-> r.out]

FlowStore_remove(st, v, f) ==
    LET st1 == SelectSeq(st, LAMBDA x : x.id # f.id)
        r   == WebFlowView_remove(v, f)
    IN  [flows |-> st1, view |-> r.view, out |-> r.out]

FlowStore_recalculate(records) ==
    LET r == WebFlowView_recalculate(records)
    IN  [flows |-> records, view |-> r.view, out |-> r.out]

\* the record lists recalculate is tried with: no id twice
RECURSIVE ListsOver(_)
ListsOver(S) ==
    {<< >>} \cup UNION {{<<f>> \o t : t \in ListsOver({g \in S : g.id # f.id})}
                         : f \in S}

RecordLists == ListsOver(StoreInputs)

(* --------------------------- WebState.events -------------------------- *)

\* mutant: a plain list, which never drops an entry
deque_append_unbounded(d, x) ==
    Append(d, x)

\* deque.append on a deque with maxlen: a full deque drops its left end
deque_append(d, x) ==
    IF Len(d) >= maxlen THEN Append(Tail(d), x) ELSE Append(d, x)

\* mutant: the id is taken from the size of the log
WebState_add_event_id_by_size(ev, last, e, level) ==
    LET id    == Len(ev) + 1
        entry == [id |-> id, message |-> e, level |-> level]
        ev1   == deque_append(ev, entry)
    IN  [events |-> ev1, last_event_id |-> id,
         out |-> <<Delivery([type |-> "events", cmd |-> "add",
                             data |-> entry], ev1)>>]

\* mutant: the broadcast is issued before the entry is appended
WebState_add_event_broadcast_first(ev, last, e, level) ==
    LET id    == last + 1
        entry == [id |-> id, message |-> e, level |-> level]
        ev1   == deque_append(ev, entry)
    IN  [events |-> ev1, last_event_id |-> id,
         out |-> <<Delivery([type |-> "events", cmd |-> "add",
                             data |-> entry], ev)>>]

WebState_add_event(ev, last, e, level) ==
    LET id    == last + 1
        entry == [id |-> id, message |-> e, level |-> level]
        ev1   == deque_append(ev, entry)
    IN  [events |-> ev1, last_event_id |-> id,
         out |-> <<Delivery([type |-> "events", cmd |-> "add",
                             data |-> entry], ev1)>>]

(* ------------------------------- Init --------------------------------- *)

\* no record, and what a worker holds before any submit has returned
NoFlow == [id |-> 0, kind |-> "none", intercepted |-> FALSE]

NoOutcome == [status |-> "none", flow |-> NoFlow]

NoOp == [name |-> "init", id |-> 0, ok |-> TRUE, arg |-> << >>]

\* flow.State.__init__: an empty store with the default view attached
State_init ==
    [flows |-> << >>, views |-> <<"FlowView">>, view |-> << >>]

\* mutant: the default view is left attached
WebState_init_no_close ==
    LET s == State_init
    IN  [flows |-> s.flows,
         views |-> Append(s.views, "WebFlowView"),
         view  |-> FlowView_recalculate(s.flows),
         last_event_id |-> 0,
         events |-> << >>]

\* WebState.__init__: the default view is closed, a WebFlowView is built
\* from the store and attached, and the event log starts empty
WebState_init ==
    LET s      == State_init
        closed == SelectSeq(s.views, LAMBDA x : x # "FlowView")
    IN  [flows |-> s.flows,
         views |-> Append(closed, "WebFlowView"),
         view  |-> FlowView_recalculate(s.flows),
         last_event_id |-> 0,
         events |-> << >>]

Init ==
    /\ flows = WebState_init.flows
    /\ views = WebState_init.views
    /\ view = WebState_init.view
    /\ events = WebState_init.events
    /\ last_event_id = WebState_init.last_event_id
    /\ masterq = << >>
    /\ pc = [w \in Workers |-> "idle"]
    /\ reply = [w \in Workers |-> "none"]
    /\ outcome = [w \in Workers |-> NoOutcome]
    /\ should_exit = FALSE
    /\ ioloop = "running"
    /\ trace = [w \in Workers |-> << >>]
    /\ connections = {}
    /\ inbox = << >>
    /\ failed = {}
    /\ sent = << >>
    /\ op = NoOp

(* ------------------ app.ClientConnection (section 4.5) ---------------- *)

Msgs(out) == [i \in 1 .. Len(out) |-> out[i].msg]

\* broadcast: the messages go to every registered observer; a delivery that
\* fails (bad) is logged and the other observers are still served
\* mutant: the first failing delivery ends the loop over the observers
ClientConnection_broadcast_stop(conns, out, bad) ==
    [o \in conns |->
        IF \E b \in bad : b <= o THEN << >> ELSE Msgs(out)]

ClientConnection_broadcast(conns, out, bad) ==
    [o \in conns |-> IF o \in bad THEN << >> ELSE Msgs(out)]

\* the broadcasts of a step, delivered; any of the deliveries may fail
Publish(out) ==
    /\ sent' = out
    /\ \E bad \in SUBSET connections :
           /\ (out = << >>) => (bad = {})
           /\ failed' = bad
           /\ inbox' = ClientConnection_broadcast(connections, out, bad)
    /\ UNCHANGED connections

(* ------------------------ store operations ---------------------------- *)

Apply(r) ==
    /\ flows' = r.flows
    /\ view' = r.view
    /\ Publish(r.out)
    /\ UNCHANGED views

add(f) ==
    /\ ~Contains(flows, f)
    /\ Apply(FlowStore_add(flows, view, f))
    /\ op' = [name |-> "add", id |-> f.id, ok |-> TRUE, arg |-> f]
    /\ UNCHANGED <<logVars, chanVars>>

update(f) ==
    /\ IF Contains(flows, f)
         THEN /\ Apply(FlowStore_update(flows, view, f))
              /\ op' = [name |-> "update", id |-> f.id, ok |-> TRUE, arg |-> f]
         ELSE \* UnknownRecord: nothing changes and nothing is announced
              /\ UNCHANGED storeVars
              /\ Publish(<< >>)
              /\ op' = [name |-> "update", id |-> f.id, ok |-> FALSE, arg |-> f]
    /\ UNCHANGED <<logVars, chanVars>>

remove(f) ==
    /\ IF Contains(flows, f)
         THEN /\ Apply(FlowStore_remove(flows, view, f))
              /\ op' = [name |-> "remove", id |-> f.id, ok |-> TRUE, arg |-> f]
         ELSE /\ UNCHANGED storeVars
              /\ Publish(<< >>)
              /\ op' = [name |-> "remove", id |-> f.id, ok |-> FALSE, arg |-> f]
    /\ UNCHANGED <<logVars, chanVars>>

recalculate(records) ==
    /\ Apply(FlowStore_recalculate(records))
    /\ op' = [name |-> "recalculate", id |-> 0, ok |-> TRUE, arg |-> records]
    /\ UNCHANGED <<logVars, chanVars>>

NextStore ==
    \/ \E f \in StoreInputs : add(f)
    \/ \E f \in StoreInputs : update(f)
    \/ \E f \in StoreInputs : remove(f)
    \/ \E records \in RecordLists : recalculate(records)

SpecStore == Init /\ [][NextStore]_vars

(* --------------------------- observers ------------------------------- *)

\* a client connects: it is added to ClientConnection.connections
register(o) ==
    /\ o \notin connections
    /\ connections' = connections \cup {o}
    /\ inbox' = [x \in connections' |-> << >>]
    /\ failed' = {}
    /\ sent' = << >>
    /\ op' = [name |-> "register", id |-> o, ok |-> TRUE, arg |-> NoFlow]
    /\ UNCHANGED <<storeVars, logVars, chanVars>>

\* a client disconnects: it is removed from ClientConnection.connections
deregister(o) ==
    /\ o \in connections
    /\ connections' = connections \ {o}
    /\ inbox' = [x \in connections' |-> << >>]
    /\ failed' = {}
    /\ sent' = << >>
    /\ op' = [name |-> "deregister", id |-> o, ok |-> TRUE, arg |-> NoFlow]
    /\ UNCHANGED <<storeVars, logVars, chanVars>>

\* the records the store is driven with while observers come and go
HubInputs == {f \in StoreInputs : f.id <= NumHubIds}

NextHub ==
    \/ \E o \in Observers : register(o)
    \/ \E o \in Observers : deregister(o)
    \/ \E f \in HubInputs : add(f)
    \/ \E f \in HubInputs : update(f)
    \/ \E f \in HubInputs : remove(f)

SpecHub == Init /\ [][NextHub]_vars

(* ------------------------------ event log ----------------------------- *)

add_event(e, level) ==
    /\ LET r == WebState_add_event(events, last_event_id, e, level)
       IN  /\ events' = r.events
           /\ last_event_id' = r.last_event_id
           /\ Publish(r.out)
    /\ op' = [name |-> "add_event", id |-> last_event_id + 1, ok |-> TRUE,
              arg |-> [message |-> e, level |-> level]]
    /\ UNCHANGED <<storeVars, chanVars>>

\* the log filled past its capacity
NextLog ==
    last_event_id < MaxAppends /\ add_event("m1", "info")

SpecLog == Init /\ [][NextLog]_vars

\* a few appends, of every message and level
NextEvents ==
    \E e \in Messages, level \in Levels :
        last_event_id < MaxVaried /\ add_event(e, level)

SpecEvents == Init /\ [][NextEvents]_vars

(* ------------- controller.Channel and Reply (section 4.1) ------------- *)

Blocked(p, w) == p[w] \in {"wait_request", "wait_response"}

\* where a worker continues once its submit has returned
Resume(p) ==
    IF p = "wait_request" THEN "got_request" ELSE "done"

\* f.reply(): resolves the pending handle of f's transaction; the worker
\* blocked on it receives f.  ch holds the workers' pc, reply and outcome.
Reply_call(ch, f) ==
    IF f.id \in DOMAIN ch.reply /\ ch.reply[f.id] = "pending"
      THEN [pc      |-> [ch.pc EXCEPT ![f.id] = Resume(@)],
            reply   |-> [ch.reply EXCEPT ![f.id] = "resolved"],
            outcome |-> [ch.outcome EXCEPT
                            ![f.id] = [status |-> "reply", flow |-> f]]]
      ELSE ch

\* a reply on a handle that is not pending (resolved before, or never
\* submitted) is a programming error: it is reported, nobody is released
Reply_error(ch, f) ==
    ~(f.id \in DOMAIN ch.reply /\ ch.reply[f.id] = "pending")

(* ------------------- flow.FlowMaster (section 4.6) -------------------- *)

Policies == {"pass", "intercept"}

\* core processing of a drained event: the interception policy marks the
\* record, and the store is changed (a request adds, a response updates)
\* a record the store does not hold yet is created, a known one is mutated
\* in place; without a record there is nothing to process
FlowMaster_handle_request(st, v, f, policy) ==
    LET f1 == [f EXCEPT !.intercepted = (policy = "intercept")]
        r  == IF Contains(st, f1) THEN FlowStore_update(st, v, f1)
                                  ELSE FlowStore_add(st, v, f1)
    IN  IF f = NoFlow
          THEN [flows |-> st, view |-> v, out |-> << >>, f |-> f]
          ELSE [flows |-> r.flows, view |-> r.view, out |-> r.out, f |-> f1]

FlowMaster_handle_response(st, v, f, policy) ==
    LET f1 == [f EXCEPT !.intercepted = (policy = "intercept")]
        r  == FlowStore_update(st, v, f1)
    IN  IF f = NoFlow \/ ~Contains(st, f)
          THEN [flows |-> st, view |-> v, out |-> << >>, f |-> f]
          ELSE [flows |-> r.flows, view |-> r.view, out |-> r.out, f |-> f1]

(* ------------------------------ WebMaster ----------------------------- *)

\* "if f": a flow record is truthy, the absence of one is not
Truthy(f) == f # NoFlow

\* mutant: the reply releases every pending worker
WebMaster_handle_request_reply_all(st, v, ch, f, policy) ==
    LET core == FlowMaster_handle_request(st, v, f, policy)
        all  == [pc      |-> [w \in Workers |->
                                 IF ch.reply[w] = "pending"
                                   THEN Resume(ch.pc[w]) ELSE ch.pc[w]],
                 reply   |-> [w \in Workers |->
                                 IF ch.reply[w] = "pending"
                                   THEN "resolved" ELSE ch.reply[w]],
                 outcome |-> [w \in Workers |->
                                 IF ch.reply[w] = "pending"
                                   THEN [status |-> "reply", flow |-> core.f]
                                   ELSE ch.outcome[w]]]
    IN  [flows |-> core.flows, view |-> core.view, out |-> core.out,
         ch |-> all, f |-> core.f,
         calls |-> <<"super", "reply">>, err |-> FALSE, ret |-> core.f]

\* mutant: the reply is issued without the test of the record
WebMaster_handle_request_reply_always(st, v, ch, f, policy) ==
    LET core == FlowMaster_handle_request(st, v, f, policy)
    IN  [flows |-> core.flows, view |-> core.view, out |-> core.out,
         ch |-> Reply_call(ch, core.f),
         f |-> core.f,
         calls |-> <<"super", "reply">>,
         err |-> Reply_error(ch, core.f),
         ret |-> core.f]

\* super().handle_request(f); if f: f.reply(); return f
WebMaster_handle_request(st, v, ch, f, policy) ==
    LET core == FlowMaster_handle_request(st, v, f, policy)
    IN  [flows |-> core.flows, view |-> core.view, out |-> core.out,
         ch |-> IF Truthy(f) THEN Reply_call(ch, core.f) ELSE ch,
         f |-> core.f,
         calls |-> IF Truthy(f) THEN <<"super", "reply">> ELSE <<"super">>,
         err |-> Truthy(f) /\ Reply_error(ch, core.f),
         ret |-> core.f]

\* mutant: the reply to a response releases every pending worker
WebMaster_handle_response_reply_all(st, v, ch, f, policy) ==
    LET core == FlowMaster_handle_response(st, v, f, policy)
        all  == [pc      |-> [w \in Workers |->
                                 IF ch.reply[w] = "pending"
                                   THEN Resume(ch.pc[w]) ELSE ch.pc[w]],
                 reply   |-> [w \in Workers |->
                                 IF ch.reply[w] = "pending"
                                   THEN "resolved" ELSE ch.reply[w]],
                 outcome |-> [w \in Workers |->
                                 IF ch.reply[w] = "pending"
                                   THEN [status |-> "reply", flow |-> core.f]
                                   ELSE ch.outcome[w]]]
    IN  [flows |-> core.flows, view |-> core.view, out |-> core.out,
         ch |-> all, f |-> core.f,
         calls |-> <<"super", "reply">>, err |-> FALSE, ret |-> core.f]

\* mutant: the hook replies, and replies again
WebMaster_handle_response_reply_twice(st, v, ch, f, policy) ==
    LET core == FlowMaster_handle_response(st, v, f, policy)
        once == IF Truthy(f) THEN Reply_call(ch, core.f) ELSE ch
    IN  [flows |-> core.flows, view |-> core.view, out |-> core.out,
         ch |-> IF Truthy(f) THEN Reply_call(once, core.f) ELSE ch,
         f |-> core.f,
         calls |-> IF Truthy(f) THEN <<"super", "reply", "reply">>
                                ELSE <<"super">>,
         err |-> Truthy(f) /\ Reply_error(once, core.f),
         ret |-> core.f]

\* super().handle_response(f); if f: f.reply(); return f
WebMaster_handle_response(st, v, ch, f, policy) ==
    LET core == FlowMaster_handle_response(st, v, f, policy)
    IN  [flows |-> core.flows, view |-> core.view, out |-> core.out,
         ch |-> IF Truthy(f) THEN Reply_call(ch, core.f) ELSE ch,
         f |-> core.f,
         calls |-> IF Truthy(f) THEN <<"super", "reply">> ELSE <<"super">>,
         err |-> Truthy(f) /\ Reply_error(ch, core.f),
         ret |-> core.f]

Chan == [pc |-> pc, reply |-> reply, outcome |-> outcome]

\* the event a suspended worker waits on
Awaited(p) ==
    IF p = "wait_request" THEN "request" ELSE "response"

\* the record of a handler step: the event f was drained, and then every
\* handle that went from pending to resolved was resolved
TraceAfter(tr, f, ch0, ch1) ==
    [w \in Workers |->
        tr[w]
        \o (IF w = f.id THEN <<[phase |-> "drain", kind |-> f.kind]>>
                        ELSE << >>)
        \o (IF ch0.reply[w] = "pending" /\ ch1.reply[w] = "resolved"
              THEN <<[phase |-> "resolve", kind |-> Awaited(ch0.pc[w])]>>
              ELSE << >>)]

ApplyHandler(r) ==
    /\ flows' = r.flows
    /\ view' = r.view
    /\ Publish(r.out)
    /\ UNCHANGED views
    /\ pc' = r.ch.pc
    /\ reply' = r.ch.reply
    /\ outcome' = r.ch.outcome

(* ------------------------------ workers ------------------------------- *)

\* Channel.ask: the worker of transaction w submits its next event and
\* suspends; on a channel that is shut down the submit fails at once
submit(w) ==
    /\ pc[w] \in {"idle", "got_request"}
    /\ LET kind == IF pc[w] = "idle" THEN "request" ELSE "response"
       IN  IF should_exit
             THEN /\ pc' = [pc EXCEPT ![w] = "aborted"]
                  /\ outcome' = [outcome EXCEPT
                                    ![w] = [status |-> "ChannelClosed",
                                            flow |-> NoFlow]]
                  /\ UNCHANGED <<masterq, reply, trace>>
             ELSE /\ masterq' = Append(masterq, Flow(w, kind, FALSE))
                  /\ pc' = [pc EXCEPT ![w] = IF kind = "request"
                                               THEN "wait_request"
                                               ELSE "wait_response"]
                  /\ reply' = [reply EXCEPT ![w] = "pending"]
                  /\ trace' = [trace EXCEPT
                                  ![w] = Append(@, [phase |-> "submit",
                                                    kind |-> kind])]
                  /\ UNCHANGED outcome
    /\ Publish(<< >>)
    /\ op' = [name |-> "submit", id |-> w, ok |-> ~should_exit, arg |-> << >>]
    /\ UNCHANGED <<storeVars, logVars, should_exit, ioloop>>

\* a worker suspended in submit sees the channel shut down: its submission
\* is resolved with an abort outcome
abort(w) ==
    /\ Blocked(pc, w)
    /\ should_exit
    /\ pc' = [pc EXCEPT ![w] = "aborted"]
    /\ reply' = [reply EXCEPT ![w] = "aborted"]
    /\ outcome' = [outcome EXCEPT ![w] = [status |-> "abort", flow |-> NoFlow]]
    /\ Publish(<< >>)
    /\ op' = [name |-> "abort", id |-> w, ok |-> TRUE, arg |-> << >>]
    /\ UNCHANGED <<storeVars, logVars, masterq, should_exit, ioloop, trace>>

(* ---------------------------- master loop ----------------------------- *)

\* PeriodicCallback(self.tick, 5): the io loop enters tick
tick ==
    /\ ioloop = "running"
    /\ ioloop' = "tick"
    /\ Publish(<< >>)
    /\ op' = [name |-> "tick", id |-> 0, ok |-> TRUE, arg |-> << >>]
    /\ UNCHANGED <<storeVars, logVars, masterq, pc, reply, outcome, should_exit,
                   trace>>

\* tick drains a request event and hands it to handle_request
handle_request(policy) ==
    /\ ioloop = "tick"
    /\ masterq # << >>
    /\ Head(masterq).kind = "request"
    /\ LET r == WebMaster_handle_request(flows, view, Chan, Head(masterq), policy)
       IN  /\ ApplyHandler(r)
           /\ trace' = TraceAfter(trace, Head(masterq), Chan, r.ch)
           /\ op' = [name |-> "handle_request", id |-> r.f.id, ok |-> TRUE,
                     arg |-> r.f, policy |-> policy,
                     input |-> Head(masterq), calls |-> r.calls,
                     err |-> r.err, ret |-> r.ret]
    /\ masterq' = Tail(masterq)
    /\ UNCHANGED <<logVars, should_exit, ioloop>>

\* tick drains a response event and hands it to handle_response
handle_response(policy) ==
    /\ ioloop = "tick"
    /\ masterq # << >>
    /\ Head(masterq).kind = "response"
    /\ LET r == WebMaster_handle_response(flows, view, Chan, Head(masterq), policy)
       IN  /\ ApplyHandler(r)
           /\ trace' = TraceAfter(trace, Head(masterq), Chan, r.ch)
           /\ op' = [name |-> "handle_response", id |-> r.f.id, ok |-> TRUE,
                     arg |-> r.f, policy |-> policy,
                     input |-> Head(masterq), calls |-> r.calls,
                     err |-> r.err, ret |-> r.ret]
    /\ masterq' = Tail(masterq)
    /\ UNCHANGED <<logVars, should_exit, ioloop>>

\* mutant: the queue is read without a timeout, so on an empty queue tick
\* waits for the next event as long as a producer may still submit one
tick_return_blocking ==
    /\ ioloop = "tick"
    /\ masterq = << >>
    /\ \A w \in Workers : pc[w] \in {"done", "aborted"}
    /\ ioloop' = "running"
    /\ Publish(<< >>)
    /\ op' = [name |-> "tick_return", id |-> 0, ok |-> TRUE, arg |-> << >>]
    /\ UNCHANGED <<storeVars, logVars, masterq, pc, reply, outcome, should_exit,
                   trace>>

\* timeout=0: the queue is empty, tick returns to the io loop
tick_return ==
    /\ ioloop = "tick"
    /\ masterq = << >>
    /\ ioloop' = "running"
    /\ Publish(<< >>)
    /\ op' = [name |-> "tick_return", id |-> 0, ok |-> TRUE, arg |-> << >>]
    /\ UNCHANGED <<storeVars, logVars, masterq, pc, reply, outcome, should_exit,
                   trace>>

\* mutant: the exception ends the loop and shutdown is not called
run_stop_no_shutdown ==
    /\ ioloop \in {"running", "tick"}
    /\ ioloop' = "stopped"
    /\ Publish(<< >>)
    /\ op' = [name |-> "stop", id |-> 0, ok |-> TRUE, arg |-> << >>]
    /\ UNCHANGED <<storeVars, logVars, masterq, pc, reply, outcome, should_exit,
                   trace>>

\* run: iol.start() raises Stop or KeyboardInterrupt; self.shutdown()
run_stop ==
    /\ ioloop \in {"running", "tick"}
    /\ ioloop' = "stopped"
    /\ should_exit' = TRUE
    /\ Publish(<< >>)
    /\ op' = [name |-> "stop", id |-> 0, ok |-> TRUE, arg |-> << >>]
    /\ UNCHANGED <<storeVars, logVars, masterq, pc, reply, outcome, trace>>

Next ==
    \/ \E w \in Workers : submit(w)
    \/ \E w \in Workers : abort(w)
    \/ tick
    \/ \E policy \in Policies : handle_request(policy)
    \/ \E policy \in Policies : handle_response(policy)
    \/ tick_return
    \/ run_stop

Spec == Init /\ [][Next]_vars

\* a worker polling its reply queue notices the shutdown flag
FairSpec == Spec /\ \A w \in Workers : WF_vars(abort(w))

(* --------------------------- removal paths ---------------------------- *)

\* the record the store holds for transaction w
RecordOf(st, w) == CHOOSE x \in {st[i] : i \in 1 .. Len(st)} : x.id = w

\* kill: every pending handle of the transactions in S is resolved with an
\* abort outcome; handles that are not pending are left alone
Kill_call(ch, S) ==
    [pc      |-> [w \in Workers |->
                     IF w \in S /\ ch.reply[w] = "pending"
                       THEN "aborted" ELSE ch.pc[w]],
     reply   |-> [w \in Workers |->
                     IF w \in S /\ ch.reply[w] = "pending"
                       THEN "aborted" ELSE ch.reply[w]],
     outcome |-> [w \in Workers |->
                     IF w \in S /\ ch.reply[w] = "pending"
                       THEN [status |-> "abort", flow |-> NoFlow]
                       ELSE ch.outcome[w]]]

\* explicit deletion of one record (kill, then remove)
kill_flow(w) ==
    /\ ioloop = "running"
    /\ w \in IdsOf(flows)
    /\ LET f == RecordOf(flows, w)
           r == FlowStore_remove(flows, view, f)
       IN  /\ ApplyHandler([flows |-> r.flows, view |-> r.view, out |-> r.out,
                            ch |-> Kill_call(Chan, {w})])
           /\ op' = [name |-> "kill_flow", id |-> w, ok |-> TRUE, arg |-> f]
    /\ UNCHANGED <<logVars, masterq, should_exit, ioloop, trace>>

\* clearing the store: every record's handle is resolved, then recalculate
clear ==
    /\ ioloop = "running"
    /\ flows # << >>
    /\ LET r == FlowStore_recalculate(<< >>)
       IN  /\ ApplyHandler([flows |-> r.flows, view |-> r.view, out |-> r.out,
                            ch |-> Kill_call(Chan, IdsOf(flows))])
           /\ op' = [name |-> "clear", id |-> 0, ok |-> TRUE, arg |-> << >>]
    /\ UNCHANGED <<logVars, masterq, should_exit, ioloop, trace>>

\* the record of an aborted transaction is removed from the store
reap(w) ==
    /\ pc[w] = "aborted"
    /\ w \in IdsOf(flows)
    /\ LET f == RecordOf(flows, w)
       IN  /\ Apply(FlowStore_remove(flows, view, f))
           /\ op' = [name |-> "reap", id |-> w, ok |-> TRUE, arg |-> f]
    /\ UNCHANGED <<logVars, chanVars>>

NextRemoval ==
    \/ \E w \in Workers : submit(w)
    \/ \E w \in Workers : abort(w)
    \/ tick
    \/ \E policy \in Policies : handle_request(policy)
    \/ \E policy \in Policies : handle_response(policy)
    \/ tick_return
    \/ run_stop
    \/ \E w \in Workers : kill_flow(w)
    \/ clear
    \/ \E w \in Workers : reap(w)

SpecRemoval == Init /\ [][NextRemoval]_vars

\* workers notice the shutdown, and the master's cleanup runs
FairRemoval ==
    SpecRemoval /\ \A w \in Workers : WF_vars(abort(w)) /\ WF_vars(reap(w))

(* ------------------------- handlers called directly ------------------ *)

\* the records a handler may be handed: a transaction's request or
\* response record, or no record
HookInputs(kind) ==
    {Flow(w, kind, FALSE) : w \in {x \in Workers : x <= NumHooked}}
    \cup {NoFlow}

\* WebMaster.handle_request(f), whatever the state of f's handle
hook_request(f, policy) ==
    /\ LET r == WebMaster_handle_request(flows, view, Chan, f, policy)
       IN  /\ ApplyHandler(r)
           /\ op' = [name |-> "hook_request", id |-> f.id, ok |-> TRUE,
                     arg |-> r.f, policy |-> policy,
                     input |-> f, calls |-> r.calls,
                     err |-> r.err, ret |-> r.ret]
    /\ UNCHANGED <<logVars, masterq, should_exit, ioloop, trace>>

\* WebMaster.handle_response(f), whatever the state of f's handle
hook_response(f, policy) ==
    /\ LET r == WebMaster_handle_response(flows, view, Chan, f, policy)
       IN  /\ ApplyHandler(r)
           /\ op' = [name |-> "hook_response", id |-> f.id, ok |-> TRUE,
                     arg |-> r.f, policy |-> policy,
                     input |-> f, calls |-> r.calls,
                     err |-> r.err, ret |-> r.ret]
    /\ UNCHANGED <<logVars, masterq, should_exit, ioloop, trace>>

NextHook ==
    \/ \E w \in Workers : submit(w)
    \/ \E f \in HookInputs("request") : hook_request(f, "pass")
    \/ \E f \in HookInputs("response") : hook_response(f, "pass")

SpecHook == Init /\ [][NextHook]_vars

\* one step of the drain loop of FlowMaster.tick
Drain ==
    \/ \E policy \in Policies : handle_request(policy)
    \/ \E policy \in Policies : handle_response(policy)

\* q.get(timeout=0) inside the drain loop: the head of a non-empty queue is
\* taken off the queue (by the handler step that processes it)
Dequeue ==
    /\ ioloop = "tick"
    /\ masterq # << >>
    /\ masterq' = Tail(masterq)

\* the consumer thread keeps running: inside a tick a queued event is
\* eventually taken, and on an empty queue the tick eventually returns
FairTick == Spec /\ WF_masterq(Dequeue) /\ WF_vars(tick_return)

(* ------------------------------- options ------------------------------ *)

CA_DIR == "~/.mitmproxy"

\* option values: None, a string, a boolean, an integer, a list of strings
None == [kind |-> "None", items |-> << >>]
Str(x) == [kind |-> "str", items |-> <<x>>]
Bool(b) == [kind |-> "bool", items |-> <<IF b THEN "True" ELSE "False">>]
Num(n) == [kind |-> "int", items |-> <<ToString(n)>>]
List(names) == [kind |-> "list", items |-> names]

Range(q) == {q[i] : i \in 1 .. Len(q)}

\* "for i in v": a list yields its items and a string its characters (the
\* strings used here have one character); None cannot be iterated
Iterable(v) == v.kind \in {"list", "str"}
Iter(v) == v.items

\* libmproxy.web.Options.attributes, the class attribute
attributes ==
    <<"app", "app_domain", "app_ip", "anticache", "anticomp",
      "client_replay", "eventlog", "keepserving", "kill", "intercept",
      "no_server", "refresh_server_playback", "rfile", "scripts", "showhost",
      "replacements", "rheaders", "setheaders", "server_replay",
      "stickycookie", "stickyauth", "stream_large_bodies", "verbosity",
      "wfile", "nopop", "wdebug", "wport", "wiface">>

\* names hasattr finds on every instance because the class defines them
ClassAttrs == {"attributes"}

\* libmproxy.web.Options.__init__: every keyword is set on the instance,
\* then every name that "self.attributes" lists and the instance lacks is
\* set to None; a keyword named attributes is what self.attributes reads
web_Options_init(kwargs) ==
    LET attrs   == IF "attributes" \in DOMAIN kwargs
                     THEN kwargs["attributes"] ELSE List(attributes)
        missing == Range(Iter(attrs)) \ (DOMAIN kwargs \cup ClassAttrs)
    IN  IF ~Iterable(attrs)
          THEN [raised |-> TRUE, obj |-> kwargs]
          ELSE [raised |-> FALSE,
                obj |-> [n \in DOMAIN kwargs \cup missing |->
                            IF n \in DOMAIN kwargs THEN kwargs[n] ELSE None]]

\* mitmproxy.options.Options.__init__: the add_option calls, in order
Declared ==
    <<<<"server", Bool(TRUE)>>, <<"showhost", Bool(FALSE)>>,
      <<"verbosity", Str("info")>>, <<"default_contentview", Str("auto")>>,
      <<"proxyauth", None>>,
      <<"add_upstream_certs_to_client_chain", Bool(FALSE)>>,
      <<"body_size_limit", None>>, <<"cadir", Str(CA_DIR)>>,
      <<"certs", List(<< >>)>>, <<"ciphers_client", None>>,
      <<"ciphers_server", None>>, <<"client_certs", None>>,
      <<"ignore_hosts", List(<< >>)>>, <<"listen_host", Str("")>>,
      <<"listen_port", Num(LISTEN_PORT)>>,
      <<"upstream_bind_address", Str("")>>, <<"mode", Str("regular")>>,
      <<"upstream_cert", Bool(TRUE)>>, <<"keep_host_header", Bool(FALSE)>>,
      <<"http2", Bool(TRUE)>>, <<"http2_priority", Bool(FALSE)>>,
      <<"websocket", Bool(TRUE)>>, <<"rawtcp", Bool(FALSE)>>,
      <<"spoof_source_address", Bool(FALSE)>>,
      <<"ssl_version_client", Str("secure")>>,
      <<"ssl_version_server", Str("secure")>>,
      <<"ssl_insecure", Bool(FALSE)>>,
      <<"ssl_verify_upstream_trusted_cadir", None>>,
      <<"ssl_verify_upstream_trusted_ca", None>>,
      <<"tcp_hosts", List(<< >>)>>, <<"intercept_active", Bool(FALSE)>>,
      <<"intercept", None>>, <<"view_filter", None>>,
      <<"flow_detail", Num(DefaultFlowDetail)>>>>

\* OptManager.add_option: the option is registered with its default
add_option(opts, name, default) ==
    [n \in DOMAIN opts \cup {name} |-> IF n = name THEN default ELSE opts[n]]

RECURSIVE AddOptions(_, _)
AddOptions(opts, i) ==
    IF i > Len(Declared)
      THEN opts
      ELSE AddOptions(add_option(opts, Declared[i][1], Declared[i][2]), i + 1)

\* OptManager.update: the named options take the given values; a name that
\* was never registered is an error and nothing is changed
OptManager_update(opts, kwargs) ==
    IF DOMAIN kwargs \subseteq DOMAIN opts
      THEN [raised |-> FALSE,
            obj |-> [n \in DOMAIN opts |->
                        IF n \in DOMAIN kwargs THEN kwargs[n] ELSE opts[n]]]
      ELSE [raised |-> TRUE, obj |-> opts]

\* super().__init__(); the add_option calls; self.update(**kwargs)
Options_init(kwargs) ==
    OptManager_update(AddOptions(<< >>, 1), kwargs)

\* the keyword arguments the constructors are tried with
WebKeys == {"app", "intercept", "wport", "attributes"}
WebValues == {None, Str("x"), List(<< >>), List(<<"app">>)}

WebKwargs ==
    UNION {[K -> WebValues] : K \in {S \in SUBSET WebKeys :
                                         Cardinality(S) <= MaxKwargs}}

OptionKeys == {"server", "mode", "intercept", "listen_port", "no_such_option"}

OptionValues(k) ==
    CASE k = "server" -> {Bool(TRUE), Bool(FALSE)}
      [] k = "mode" -> {Str("regular"), Str("transparent")}
      [] k = "intercept" -> {None, Str("x")}
      [] k = "listen_port" -> {Num(LISTEN_PORT), Num(LISTEN_PORT + 1)}
      [] OTHER -> {Str("x")}

OptionKwargs ==
    UNION {{kw \in [K -> UNION {OptionValues(k) : k \in K}] :
               \A k \in K : kw[k] \in OptionValues(k)} :
           K \in {S \in SUBSET OptionKeys : Cardinality(S) <= MaxKwargs}}

web_Options(kwargs) ==
    /\ LET r == web_Options_init(kwargs)
       IN  op' = [name |-> "web_Options", id |-> 0, ok |-> ~r.raised,
                  arg |-> kwargs, result |-> r.obj]
    /\ Publish(<< >>)
    /\ UNCHANGED <<storeVars, logVars, chanVars>>

Options(kwargs) ==
    /\ LET r == Options_init(kwargs)
       IN  op' = [name |-> "Options", id |-> 0, ok |-> ~r.raised,
                  arg |-> kwargs, result |-> r.obj]
    /\ Publish(<< >>)
    /\ UNCHANGED <<storeVars, logVars, chanVars>>

NextOptions ==
    \/ \E kwargs \in WebKwargs : web_Options(kwargs)
    \/ \E kwargs \in OptionKwargs : Options(kwargs)

SpecOptions == Init /\ [][NextOptions]_vars

(* ============================== claims ================================ *)

Min(a, b) == IF a < b THEN a ELSE b

Last(s) == s[Len(s)]

StoreOps == {"add", "update", "remove"}

\* C1 (view consistency): after every completed store operation the view
\* holds exactly the records of the store that satisfy the view's predicate,
\* in the store's order; the predicate being None, the view is the store.
C1_ViewConsistency ==
    /\ view = SelectSeq(flows, filt)
    /\ view = flows

C1_Witness ==
    /\ op.name = "remove" /\ op.ok
    /\ Len(flows) = 2
    /\ view = flows

\* C2 (notification count): an add, update or remove that the store carried
\* out produced exactly one broadcast, of type flows, whose cmd is the
\* operation and whose data is the short state of the record.
C2_OneNotification ==
    (op.name \in StoreOps /\ op.ok) =>
        /\ Len(sent) = 1
        /\ sent[1].msg = [type |-> "flows", cmd |-> op.name,
                          data |-> short(op.arg)]

C2_Witness ==
    /\ op.name = "update" /\ op.ok
    /\ Len(flows) = 2
    /\ Len(sent) = 1
    /\ sent[1].msg.data = [id |-> op.id, kind |-> "response"]

\* C3 (recalculate): after recalculate(records) the store is records, in the
\* same order, the view is the filtered records, and exactly one broadcast
\* was issued: {flows, reset}, with no data and no add, update or remove.
C3_Recalculate ==
    op.name = "recalculate" =>
        /\ flows = op.arg
        /\ view = SelectSeq(op.arg, filt)
        /\ Len(sent) = 1
        /\ sent[1].msg = [type |-> "flows", cmd |-> "reset"]
        /\ "data" \notin DOMAIN sent[1].msg

C3_Witness ==
    /\ op.name = "recalculate"
    /\ Len(op.arg) = 3
    /\ view = op.arg
    /\ Len(sent) = 1

\* C4 (update transitions): a store update of record r is forwarded
\* according to r's membership of the view before and after: out to in as an
\* add, in to out as a remove, in to in as an update, out to out as nothing.
C4_UpdateTransitions ==
    [][(op'.name = "update" /\ op'.ok) =>
          LET r      == op'.arg
              before == Contains(view, r)
              after  == Contains(view', r)
              cmds   == [i \in 1 .. Len(sent') |-> sent'[i].msg.cmd]
          IN  /\ (~before /\ after) => cmds = <<"add">>
              /\ (before /\ ~after) => cmds = <<"remove">>
              /\ (before /\ after) => cmds = <<"update">>
              /\ (~before /\ ~after) => cmds = << >>
              /\ \A i \in 1 .. Len(sent') : sent'[i].msg.data = short(r)]_vars

C4_Witness ==
    /\ op.name = "update" /\ op.ok
    /\ Contains(view, op.arg)
    /\ Len(sent) = 1
    /\ sent[1].msg.cmd = "update"

\* C7 (log eviction): the log never holds more than 1000 entries; after k
\* appends it holds the entries with ids k-min(k,1000)+1 .. k, in order, so
\* every append put its entry at the end and a full log lost its oldest.
C7_LogEviction ==
    /\ Len(events) <= maxlen
    /\ Len(events) = Min(last_event_id, maxlen)
    /\ \A i \in 1 .. Len(events) :
           events[i].id = last_event_id - Len(events) + i

C7_Witness ==
    /\ last_event_id = maxlen + 1
    /\ Len(events) = maxlen
    /\ events[1].id = 2
    /\ Last(events).id = maxlen + 1

\* C8 (sequence ids): the first entry gets id 1, every later append gets the
\* previous id plus one, and the new id is larger than every id in the log,
\* whether or not old entries were evicted.
C8_SequenceIds ==
    /\ [](\A i \in 1 .. Len(events) : events[i].id <= last_event_id)
    /\ [][/\ last_event_id' = last_event_id + 1
          /\ Last(events').id = last_event_id + 1
          /\ (events = << >>) => (Last(events').id = 1)
          /\ \A i \in 1 .. Len(events) : events[i].id < Last(events').id]_vars

C8_Witness ==
    /\ last_event_id = maxlen + 2
    /\ events[1].id = 3
    /\ Last(events).id = maxlen + 2

\* C9 (log broadcast): an append issued exactly one broadcast {events, add,
\* entry}, entry being the {id, message, level} just appended, and the entry
\* was in the log when the broadcast was issued.
C9_AppendBroadcast ==
    op.name = "add_event" =>
        LET entry == [id |-> last_event_id, message |-> op.arg.message,
                      level |-> op.arg.level]
        IN  /\ Len(sent) = 1
            /\ sent[1].msg = [type |-> "events", cmd |-> "add", data |-> entry]
            /\ Last(events) = entry
            /\ sent[1].seen # << >>
            /\ Last(sent[1].seen) = entry

C9_Witness ==
    /\ op.name = "add_event"
    /\ last_event_id = 2
    /\ Len(sent) = 1
    /\ sent[1].msg.data = [id |-> 2, message |-> "m2", level |-> "error"]

Handlers == {"handle_request", "handle_response"}

\* the handler that resolves the event a suspended worker waits on
HandlerOf(p) ==
    IF p = "wait_request" THEN "handle_request" ELSE "handle_response"

\* C5 (blocking contract): a worker suspended in submit stays suspended, with
\* nothing received, until the handler of its own event replies or the
\* channel is shut down; the reply for one event releases that worker only,
\* every other suspended worker stays as it is, and the worker receives the
\* record that was passed to the reply.
C5_BlockingContract ==
    [][\A w \in Workers :
          Blocked(pc, w) =>
              \/ /\ pc'[w] = pc[w]
                 /\ outcome'[w] = outcome[w]
                 /\ reply'[w] = "pending"
              \/ /\ op'.name = HandlerOf(pc[w])
                 /\ op'.id = w
                 /\ pc'[w] = Resume(pc[w])
                 /\ outcome'[w] = [status |-> "reply", flow |-> op'.arg]
                 /\ \E i \in 1 .. Len(flows') : flows'[i] = outcome'[w].flow
                 /\ \A u \in Workers \ {w} :
                        Blocked(pc, u) =>
                            pc'[u] = pc[u] /\ outcome'[u] = outcome[u]
              \/ /\ should_exit
                 /\ op'.name = "abort"
                 /\ op'.id = w
                 /\ outcome'[w].status = "abort"]_vars

C5_Witness ==
    /\ op.name = "handle_request"
    /\ op.id = 1
    /\ pc[1] = "got_request"
    /\ outcome[1] = [status |-> "reply", flow |-> op.arg]
    /\ pc[2] = "wait_request"
    /\ reply[2] = "pending"

\* C6 (teardown): once run has caught Stop and shut the channel down, every
\* worker suspended in submit eventually holds an abort outcome and none
\* stays suspended; a submit made after the shutdown fails with
\* ChannelClosed, queues nothing and does not suspend the worker.
C6_Teardown ==
    /\ \A w \in Workers :
           (ioloop = "stopped" /\ Blocked(pc, w))
               ~> (pc[w] = "aborted" /\ outcome[w].status = "abort")
    /\ (ioloop = "stopped") ~> (\A w \in Workers : ~Blocked(pc, w))
    /\ [][\A w \in Workers :
             (ioloop = "stopped" /\ ~Blocked(pc, w) /\ pc'[w] # pc[w]) =>
                 /\ pc'[w] = "aborted"
                 /\ outcome'[w].status = "ChannelClosed"
                 /\ masterq' = masterq]_vars

C6_Witness ==
    /\ ioloop = "stopped"
    /\ \A w \in Workers : pc[w] = "aborted" /\ outcome[w].status = "abort"

\* C10 (pass through or intercept): after a handler has run, a transaction
\* whose policy is pass-through is resolved, and one whose policy is
\* intercept is still pending, its worker suspended.
C10_InterceptDeferred ==
    op.name \in Handlers =>
        IF op.policy = "intercept"
          THEN Blocked(pc, op.id) /\ reply[op.id] = "pending"
          ELSE ~Blocked(pc, op.id) /\ reply[op.id] = "resolved"

\* the kinds of a transaction's events that went through a phase, in order
KindsIn(t, ph) ==
    LET sel == SelectSeq(t, LAMBDA e : e.phase = ph)
    IN  [i \in 1 .. Len(sel) |-> sel[i].kind]

IsPrefix(a, b) ==
    /\ Len(a) <= Len(b)
    /\ \A i \in 1 .. Len(a) : a[i] = b[i]

\* C11 (per-transaction order): for every transaction the events drained
\* are, in order, the events submitted, and the events resolved are, in
\* order, the events drained; its response is drained only after its request
\* was resolved, however the other transactions' events interleave.
C11_EventOrder ==
    \A w \in Workers :
        /\ IsPrefix(KindsIn(trace[w], "drain"), KindsIn(trace[w], "submit"))
        /\ IsPrefix(KindsIn(trace[w], "resolve"), KindsIn(trace[w], "drain"))
        /\ \A i \in 1 .. Len(trace[w]) :
               trace[w][i] = [phase |-> "drain", kind |-> "response"] =>
                   \E j \in 1 .. i - 1 :
                       trace[w][j] = [phase |-> "resolve", kind |-> "request"]

C11_Witness ==
    /\ \A w \in Workers :
           /\ KindsIn(trace[w], "submit") = <<"request", "response">>
           /\ KindsIn(trace[w], "drain") = <<"request", "response">>
           /\ KindsIn(trace[w], "resolve") = <<"request", "response">>
    /\ op.name = "handle_response"
    /\ op.id = 1

\* C16 (state before notify): whenever a flows notification is delivered,
\* the view the observer can read is already the view after the mutation
\* the notification announces (the added or updated record is in it, the
\* removed one is not, a reset shows the rebuilt view), and the
\* notifications of a step are those of that step's mutation only.
C16_StateBeforeNotify ==
    (op.name \in StoreOps \cup {"recalculate"}) =>
        \A i \in 1 .. Len(sent) :
            /\ sent[i].seen = view
            /\ sent[i].msg.cmd = IF op.name = "recalculate"
                                   THEN "reset" ELSE op.name
            /\ op.name \in {"add", "update"} =>
                   \E k \in 1 .. Len(sent[i].seen) : sent[i].seen[k] = op.arg
            /\ op.name = "remove" => ~Contains(sent[i].seen, op.arg)
            /\ op.name = "recalculate" => sent[i].seen = SelectSeq(op.arg, filt)

C16_Witness ==
    /\ op.name = "add" /\ op.ok
    /\ Len(sent) = 1
    /\ Len(sent[1].seen) = 2
    /\ sent[1].seen[2] = op.arg

\* C18 (one view): the store always has exactly one view attached, the
\* WebFlowView (the default view of the base State was closed), so a store
\* mutation is broadcast once for each attached WebFlowView, that is once.
C18_SingleView ==
    /\ Len(views) = 1
    /\ views[1] = "WebFlowView"
    /\ (op.name \in StoreOps /\ op.ok) =>
           Len(sent) = Len(SelectSeq(views, LAMBDA x : x = "WebFlowView"))

C18_Witness ==
    /\ op.name = "remove" /\ op.ok
    /\ views = <<"WebFlowView">>
    /\ Len(sent) = 1
    /\ Len(flows) = 1

NoDuplicateIds(s) ==
    \A i, j \in 1 .. Len(s) : s[i].id = s[j].id => i = j

\* what one store operation may do to the list of records
StoreStep ==
    /\ (op'.name = "add") => flows' = Append(flows, op'.arg)
    /\ (op'.name = "update" /\ op'.ok) =>
           /\ Len(flows') = Len(flows)
           /\ \A i \in 1 .. Len(flows) :
                  flows'[i] = IF flows[i].id = op'.id THEN op'.arg ELSE flows[i]
    /\ (op'.name = "remove" /\ op'.ok) =>
           flows' = SelectSeq(flows, LAMBDA x : x.id # op'.id)
    /\ (op'.name \in {"update", "remove"} /\ ~op'.ok) =>
           /\ ~Contains(flows, op'.arg)
           /\ flows' = flows

\* C15 (store order): the store never holds two records with the same id;
\* an add appends the record at the end, an update replaces the record at
\* its position and moves no record, a remove keeps the order of the rest,
\* and an update or remove of an id the store does not hold leaves the
\* store as it was.
C15_StoreOrder ==
    /\ []NoDuplicateIds(flows)
    /\ [][StoreStep]_vars

C15_Witness ==
    /\ op.name = "update" /\ op.ok
    /\ Len(flows) = 3
    /\ flows[1] = op.arg
    /\ flows[1].kind = "response"
    /\ flows[2].kind = "request"

\* C12 (publish fan-out): a publish reaches every observer registered when
\* it is called, except those whose own delivery failed; a failed delivery
\* leaves the caller's operation completed (the store and the view are
\* updated and the operation is reported carried out), the other observers
\* served, and the failing observer registered.
C12_PublishIsolation ==
    /\ [](/\ DOMAIN inbox = connections
          /\ failed \subseteq connections
          /\ \A o \in connections \ failed : inbox[o] = Msgs(sent)
          /\ (op.name \in StoreOps /\ op.ok) =>
                 /\ sent # << >>
                 /\ view = flows)
    /\ [][op'.name \in StoreOps => connections' = connections]_vars

C12_Witness ==
    /\ op.name = "update" /\ op.ok
    /\ connections = {1, 2}
    /\ failed = {1}
    /\ inbox[1] = << >>
    /\ inbox[2] = <<[type |-> "flows", cmd |-> "update",
                     data |-> short(op.arg)]>>

\* C17 (tick never waits): inside a tick the consumer always has a step of
\* its own to take, whatever the producers do: it handles the event at the
\* head of the queue or, on an empty queue, returns at once; and every tick
\* ends, also while producers are suspended in submit.
C17_TickNeverWaits ==
    /\ [](ioloop = "tick" => ENABLED (Drain \/ tick_return))
    /\ (ioloop = "tick") ~> (ioloop # "tick")

C17_Witness ==
    /\ ioloop = "tick"
    /\ masterq = << >>
    /\ op.name = "handle_request"
    /\ \E w \in Workers : pc[w] = "idle"

HookOps == {"hook_request", "hook_response"}

Replies(calls) == {i \in 1 .. Len(calls) : calls[i] = "reply"}

\* C13 (resolve at most once): one handler invocation, the inherited
\* handler and the hook after it taken together, invokes reply at most once;
\* a reply on a handle that is not pending (resolved already, or never
\* submitted) is reported as an error and changes nothing for any worker,
\* and a reply on a pending handle resolves it.
C13_ResolveOnce ==
    /\ [](op.name \in HookOps => Cardinality(Replies(op.calls)) <= 1)
    /\ [][(op'.name \in HookOps /\ Replies(op'.calls) # {}) =>
             /\ op'.err <=> reply[op'.id] # "pending"
             /\ op'.err => UNCHANGED <<pc, reply, outcome>>
             /\ ~op'.err => /\ reply'[op'.id] = "resolved"
                            /\ \A w \in Workers \ {op'.id} :
                                   reply'[w] = reply[w]]_vars

C13_Witness ==
    /\ op.name = "hook_request"
    /\ op.err
    /\ reply[op.id] = "resolved"
    /\ outcome[op.id].status = "reply"

\* C19 (reply iff truthy): handle_request and handle_response call the
\* inherited handler first, then reply exactly when the record they were
\* handed is truthy, and return the record they were handed; handed no
\* record they leave every worker as it was.
C19_ReplyIffTruthy ==
    /\ [](op.name \in HookOps =>
             /\ op.calls[1] = "super"
             /\ Replies(op.calls) # {} <=> Truthy(op.input)
             /\ \A i \in Replies(op.calls) : i > 1
             /\ op.ret = op.arg
             /\ op.ret.id = op.input.id
             /\ op.ret.kind = op.input.kind
             /\ (Truthy(op.input) /\ ~op.err) =>
                    /\ reply[op.id] = "resolved"
                    /\ outcome[op.id] = [status |-> "reply", flow |-> op.ret])
    /\ [][(op'.name \in HookOps /\ ~Truthy(op'.input)) =>
             UNCHANGED <<pc, reply, outcome, flows, view>>]_vars

C19_Witness ==
    /\ op.name = "hook_response"
    /\ op.input = NoFlow
    /\ op.calls = <<"super">>
    /\ op.ret = NoFlow
    /\ \E w \in Workers : reply[w] = "pending"

DeclaredNames == {Declared[i][1] : i \in 1 .. Len(Declared)}

DefaultOf(n) ==
    LET i == CHOOSE j \in 1 .. Len(Declared) : Declared[j][1] = n
    IN  Declared[i][2]

\* C20 (option defaults): a constructed libmproxy.web Options defines every
\* name of Options.attributes, with the keyword's value where one was
\* given and None elsewhere; a constructed mitmproxy Options holds every
\* declared option, with the keyword's value where one was given and the
\* declared default elsewhere.
C20_OptionDefaults ==
    /\ (op.name = "web_Options" /\ op.ok) =>
           \A n \in Range(attributes) :
               /\ n \in DOMAIN op.result
               /\ op.result[n] = IF n \in DOMAIN op.arg THEN op.arg[n] ELSE None
    /\ (op.name = "Options" /\ op.ok) =>
           /\ DOMAIN op.result = DeclaredNames
           /\ \A n \in DeclaredNames :
                  op.result[n] = IF n \in DOMAIN op.arg THEN op.arg[n]
                                                        ELSE DefaultOf(n)

====
